---- MODULE Spec2Model ----
(***************************************************************************)
(* The /github-push handler of main.py: one asynchronous request handler   *)
(* that runs check_git_config, clone_repository, stage_changes,            *)
(* commit_changes and push_changes in sequence.  Every                     *)
(* `await terminal.execute(...)` is a suspension point; the code between   *)
(* two suspension points runs atomically on the event loop.  The process   *)
(* working directory (os.chdir / os.getcwd) is one value shared by all     *)
(* requests of the process.                                                *)
(*                                                                         *)
(* Strings that the code takes apart (URLs, command output) are sequences  *)
(* of characters or of words; paths are records [abs, segs].               *)
(***************************************************************************)
EXTENDS Naturals, Sequences, FiniteSets, TLC

VARIABLES
    cwd,      \* the process working directory (absolute, a sequence of segments)
    dirs,     \* the directories that exist on disk (absolute paths)
    perm,     \* directories in which creating an entry is denied
    tree,     \* the working tree of the repository: file -> state
    sched,    \* who calls: "single", "serial", "concurrent" requests, or "direct" calls
    task      \* per request: position, parameters, locals, commands, response

vars == <<cwd, dirs, perm, tree, sched, task>>

-----------------------------------------------------------------------------
(* Bounds *)

\* longest repo_url drawn when the name derivation is checked on its own
MaxUrlLen == 5
\* longest specific_files list of a request
MaxFiles == 2

\* the requests: one on its own, or two side by side or one after the other
Reqs == {1, 2}

-----------------------------------------------------------------------------
(* Strings *)

Chars == {"/", ".", "g", "i", "t", "a"}

DOTGIT == <<".", "g", "i", "t">>

IsPrefix(p, s) == Len(p) <= Len(s) /\ SubSeq(s, 1, Len(p)) = p

IsSuffix(p, s) == Len(p) <= Len(s) /\ SubSeq(s, Len(s) - Len(p) + 1, Len(s)) = p

\* p occurs in s as a contiguous run (Python's `p in s`)
Contains(s, p) == \E i \in 0..(Len(s) - Len(p)) : SubSeq(s, i + 1, i + Len(p)) = p

\* s.split("/")[-1]: what follows the last "/", the whole of s when there is none
LastSlash(s) ==
    IF \E i \in 1..Len(s) : s[i] = "/"
    THEN CHOOSE i \in 1..Len(s) : s[i] = "/" /\ \A j \in (i + 1)..Len(s) : s[j] # "/"
    ELSE 0

SplitLast(s) == SubSeq(s, LastSlash(s) + 1, Len(s))

\* s.replace(old, ""): every non-overlapping occurrence, scanning left to right
RECURSIVE Replace(_, _)
Replace(s, old) ==
    IF Len(s) < Len(old) THEN s
    ELSE IF IsPrefix(old, s) THEN Replace(SubSeq(s, Len(old) + 1, Len(s)), old)
    ELSE <<Head(s)>> \o Replace(Tail(s), old)

\* repo_url.split("/")[-1].replace(".git", "")
RepoName(url) == Replace(SplitLast(url), DOTGIT)

\* the directory `git clone <url>` creates: the last component of the URL
\* after trailing slashes and one trailing ".git" are dropped
RECURSIVE DropTrailingSlashes(_)
DropTrailingSlashes(s) ==
    IF s # <<>> /\ s[Len(s)] = "/" THEN DropTrailingSlashes(SubSeq(s, 1, Len(s) - 1)) ELSE s

StripSuffix(s, suf) == IF IsSuffix(suf, s) THEN SubSeq(s, 1, Len(s) - Len(suf)) ELSE s

GitCloneDirName(url) == SplitLast(StripSuffix(DropTrailingSlashes(url), DOTGIT))

\* str.strip() on command output
IsSpace(ch) == ch \in {" ", "\n"}

RECURSIVE LStrip(_)
LStrip(s) == IF s # <<>> /\ IsSpace(Head(s)) THEN LStrip(Tail(s)) ELSE s

RECURSIVE RStrip(_)
RStrip(s) == IF s # <<>> /\ IsSpace(s[Len(s)]) THEN RStrip(SubSeq(s, 1, Len(s) - 1)) ELSE s

Strip(s) == RStrip(LStrip(s))

-----------------------------------------------------------------------------
(* Paths and the filesystem *)

Path(abs, segs) == [abs |-> abs, segs |-> segs]

\* os.path.join(directory, name) for a name that holds no "/"
PathJoin(p, name) == Path(p.abs, p.segs \o (IF name = <<>> THEN <<>> ELSE <<name>>))

\* the absolute path a path names, given the working directory
Resolve(wd, p) == IF p.abs THEN p.segs ELSE wd \o p.segs

Prefixes(a) == {SubSeq(a, 1, n) : n \in 0..Len(a)}

\* os.path.exists(p)
PathExists(c, p) == Resolve(c.cwd, p) \in c.dirs

\* os.makedirs(p) raises when a directory it has to create lies in a denied parent
MakedirsRaises(c, p) ==
    \E a \in Prefixes(Resolve(c.cwd, p)) \ c.dirs :
        a # <<>> /\ SubSeq(a, 1, Len(a) - 1) \in c.perm

Makedirs(c, p) == [c EXCEPT !.dirs = @ \cup Prefixes(Resolve(c.cwd, p))]

\* os.chdir(p) raises unless p names an existing directory
ChdirRaises(c, p) == ~PathExists(c, p)

Chdir(c, p) == [c EXCEPT !.cwd = Resolve(c.cwd, p)]

-----------------------------------------------------------------------------
(* Values *)

None == [none |-> TRUE]

Some(v) == [none |-> FALSE, v |-> v]

\* Python truthiness of an optional string / list
Truthy(o) == ~o.none /\ o.v # <<>>

\* a request's repo_url: absent, a string, or a JSON value that is no string
NoUrl == [kind |-> "none", s |-> <<>>]

StrUrl(s) == [kind |-> "str", s |-> s]

IntUrl == [kind |-> "int", s |-> <<>>]

\* `if repo_url is not None`
UrlGiven(u) == u.kind # "none"

\* `if repo_url`
UrlTruthy(u) == u.kind = "int" \/ (u.kind = "str" /\ u.s # <<>>)

\* the result of terminal.execute: exit status and output, or an exception
Exit(rc, out) == [kind |-> "exit", rc |-> rc, stdout |-> out,
                  stderr |-> IF rc = 0 THEN <<>> ELSE <<"error">>]

Raised == [kind |-> "raise", rc |-> 0, stdout |-> <<>>, stderr |-> <<>>]

\* a command that has not ended yet
Pending == [kind |-> "pending", rc |-> 0, stdout |-> <<>>, stderr |-> <<>>]

\* `result.stderr if result.returncode != 0 else None`
ErrorOf(o) == IF o.rc # 0 THEN Some(o.stderr) ELSE None

-----------------------------------------------------------------------------
(* git, as the commands of the handler see it *)

Files == {<<"a">>, <<"b">>}

FileStates == {"clean", "modified", "untracked", "staged"}

OnBranch == <<"On", "branch", "main">>

StatusClean == OnBranch \o <<"nothing", "to", "commit", ",", "working", "tree", "clean">>

StatusUntracked ==
    OnBranch \o <<"Untracked", "files", ":", "nothing", "added", "to", "commit",
                  "but", "untracked", "files", "present">>

StatusUnstaged ==
    OnBranch \o <<"Changes", "not", "staged", "for", "commit", ":",
                  "no", "changes", "added", "to", "commit">>

StatusStaged == OnBranch \o <<"Changes", "to", "be", "committed", ":">>

StatusOutputs == {StatusClean, StatusUntracked, StatusUnstaged, StatusStaged}

\* what `git status` prints for a working tree
GitStatus(tr) ==
    IF \E f \in Files : tr[f] = "staged" THEN StatusStaged
    ELSE IF \E f \in Files : tr[f] = "modified" THEN StatusUnstaged
    ELSE IF \E f \in Files : tr[f] = "untracked" THEN StatusUntracked
    ELSE StatusClean

\* `git add <file>`: a path that matches nothing is an error
GitAddOk(tr, f) == f \in Files

GitAdd(tr, f) ==
    IF f \in Files /\ tr[f] \in {"modified", "untracked"}
    THEN [tr EXCEPT ![f] = "staged"] ELSE tr

\* `git add .`
GitAddAll(tr) ==
    [f \in Files |-> IF tr[f] \in {"modified", "untracked"} THEN "staged" ELSE tr[f]]

\* `git commit` fails when nothing is staged
GitCommitOk(tr) == \E f \in Files : tr[f] = "staged"

GitCommit(tr) == [f \in Files |-> IF tr[f] = "staged" THEN "clean" ELSE tr[f]]

\* the results explored when requests run concurrently: git is configured,
\* nothing raises
ConcurrentOutcomes(cmd) ==
    CASE cmd.op = "version" -> {Exit(0, <<"git", "version">>)}
      [] cmd.op \in {"user.name", "user.email"} -> {Exit(0, <<"u", "\n">>)}
      [] cmd.op = "status" -> {Exit(0, StatusClean), Exit(0, StatusStaged)}
      [] OTHER -> {Exit(0, <<>>), Exit(1, <<>>)}

\* A command's possible results.  Under direct calls the repository's working
\* tree is tracked and decides them; otherwise the repository is not modelled
\* and any result is possible.
Outcomes(c, cmd) ==
    IF c.sched = "concurrent" THEN ConcurrentOutcomes(cmd)
    ELSE IF c.sched = "direct"
    THEN CASE cmd.op = "status" -> {Exit(0, GitStatus(c.tree))}
           [] cmd.op = "add" -> {Exit(IF GitAddOk(c.tree, cmd.arg) THEN 0 ELSE 128, <<>>)}
           [] cmd.op = "add_all" -> {Exit(0, <<>>)}
           [] cmd.op = "commit" -> {Exit(IF GitCommitOk(c.tree) THEN 0 ELSE 1, <<>>)}
           [] OTHER -> {Exit(0, <<>>)}
    ELSE CASE cmd.op = "version" ->
                {Exit(0, <<"git", "version">>), Exit(127, <<>>), Raised}
           [] cmd.op \in {"user.name", "user.email"} ->
                {Exit(0, <<"u", "\n">>), Exit(0, <<"\n">>), Exit(1, <<>>), Raised}
           [] cmd.op = "status" ->
                {Exit(0, m) : m \in StatusOutputs} \cup {Exit(128, <<>>), Raised}
           [] cmd.op = "clone" ->
                (IF (cmd.cwd \o <<GitCloneDirName(cmd.arg)>>) \in c.dirs
                 THEN {} ELSE {Exit(0, <<>>)}) \cup {Exit(128, <<>>), Raised}
           [] OTHER -> {Exit(0, <<>>), Exit(1, <<>>), Raised}

\* what a command that has run leaves behind
Effect(c, cmd, o) ==
    IF o.kind = "raise" \/ o.rc # 0 THEN c
    ELSE CASE cmd.op = "clone" ->
                [c EXCEPT !.dirs = @ \cup {cmd.cwd \o <<GitCloneDirName(cmd.arg)>>}]
           [] cmd.op = "add" /\ c.sched = "direct" ->
                [c EXCEPT !.tree = GitAdd(@, cmd.arg)]
           [] cmd.op = "add_all" /\ c.sched = "direct" ->
                [c EXCEPT !.tree = GitAddAll(@)]
           [] cmd.op = "commit" /\ c.sched = "direct" ->
                [c EXCEPT !.tree = GitCommit(@)]
           [] OTHER -> c

-----------------------------------------------------------------------------
(* The handler.  A context c is the state one request's code reads and     *)
(* writes: the process and disk state and the request's own record c.t.    *)
(* Each operator below is the code from one suspension point to the next.  *)

Skipped == [skipped |-> TRUE]

NotRun == [attempted |-> FALSE]

IdleTask ==
    [pc |-> "idle",
     repo_url |-> NoUrl, clone_directory |-> Path(TRUE, <<>>),
     commit_message |-> <<>>, branch_name |-> <<>>, specific_files |-> None,
     git_config |-> NotRun, username |-> None,
     repo_name |-> None, repo_path |-> Path(TRUE, <<>>),
     clone_result |-> NotRun, stage_result |-> NotRun, results |-> <<>>,
     commit_result |-> NotRun, push_result |-> NotRun,
     calls |-> <<>>, inflight |-> {}, log |-> <<>>, resp |-> [status |-> 0],
     start |-> [cwd |-> <<>>, dirs |-> {}]]

Ctx(r) == [cwd |-> cwd, dirs |-> dirs, perm |-> perm, tree |-> tree,
           sched |-> sched, t |-> task[r]]

Install(r, c) ==
    \E after \in {c} :
        /\ cwd' = after.cwd
        /\ dirs' = after.dirs
        /\ tree' = after.tree
        /\ task' = [task EXCEPT ![r] = after.t]
        /\ UNCHANGED <<perm, sched>>

\* A call passes its argument by value: ByValue({f(x) : x \in {e}}) is f(e)
\* with e evaluated once, before the body of f.
ByValue(S) == CHOOSE v \in S : TRUE

\* a handler whose return never completes the request
RespondDropped(c, status, body) == c

\* a handler that answers 200 whatever happened
RespondAlwaysOk(c, status, body) ==
    [c EXCEPT !.t.pc = "done", !.t.resp = [status |-> 200, body |-> body]]

\* return Response(status=..., body=...)
Respond(c, status, body) ==
    [c EXCEPT !.t.pc = "done", !.t.resp = [status |-> status, body |-> body]]

\* a runner that is told the directory to run in
ExecuteInRepoPath(c, op, arg, at) ==
    [c EXCEPT !.t.log = Append(@, [op |-> op, arg |-> arg,
                                   cwd |-> Resolve(c.cwd, c.t.repo_path), at |-> at,
                                   result |-> Pending]),
              !.t.inflight = @ \cup {Len(c.t.log) + 1},
              !.t.pc = at]

\* await terminal.execute(...): the command starts in the process working
\* directory as it is now, and the coroutine is suspended until it ends.
\* The log keeps every command issued, where it ran, which await issued it
\* and, once it has ended, its result.
Execute(c, op, arg, at) ==
    [c EXCEPT !.t.log = Append(@, [op |-> op, arg |-> arg, cwd |-> c.cwd, at |-> at,
                                   result |-> Pending]),
              !.t.inflight = @ \cup {Len(c.t.log) + 1},
              !.t.pc = at]

\* the awaited command
Awaited(c) == c.t.log[Len(c.t.log)]

\* the awaited command has ended with result o: the coroutine resumes
Resume(c, o) ==
    Effect([c EXCEPT !.t.inflight = @ \ {Len(c.t.log)},
                     !.t.log[Len(c.t.log)].result = o],
           Awaited(c), o)

\* `except Exception as e: return {"success": False, "error": str(e)}`
StepException == [success |-> FALSE, error |-> <<"exception">>]

\* a handler that goes on whatever the step reported
StepFailedIgnored(result) == FALSE

\* `if not <step>_result["success"]:`
StepFailed(result) == ~result.success

\* a failure body that leaves the step's result out
FailureBodyBare(message, result) ==
    [success |-> FALSE, message |-> message, details |-> None]

\* the body of a status-400 response, lines 42-49, 58-65, 71-78, 83-90, 95-102
FailureBody(message, result) ==
    [success |-> FALSE, message |-> message, details |-> result]

\* `except Exception as e:` of github_push, lines 119-127: the body of the
\* status-500 response
ErrorBody ==
    [success |-> FALSE,
     message |-> <<"An", "error", "occurred", ":", "exception">>,
     error |-> <<"exception">>]

\* the direct caller is done
DirectDone(c) == [c EXCEPT !.t.pc = "done"]

(* github_push, lines 92-117 *)
github_push_after_push(c) ==
    LET t == c.t IN
    IF StepFailed(t.push_result)
    THEN Respond(c, 400, FailureBody(<<"Failed", "to", "push", "changes">>, c.t.push_result))
    ELSE Respond(c, 200,
           [success |-> TRUE,
            message |-> <<"Successfully", "pushed", "changes", "to">>
                        \o (IF UrlTruthy(t.repo_url) THEN t.repo_url.s ELSE <<"repository">>)
                        \o <<"on", "branch">> \o t.branch_name,
            details |-> [git_config |-> t.git_config,
                         clone |-> IF UrlTruthy(t.repo_url) THEN t.clone_result ELSE Skipped,
                         stage |-> t.stage_result,
                         commit |-> t.commit_result,
                         push |-> t.push_result]])

ReturnPush(c, result) ==
    ByValue({github_push_after_push(x) : x \in {[c EXCEPT !.t.push_result = result]}})

(* push_changes, lines 275-294 *)
push_changes(c) ==
    IF ChdirRaises(c, c.t.repo_path) THEN ReturnPush(c, StepException)
    ELSE Execute(Chdir(c, c.t.repo_path), "push", c.t.branch_name, "push")

\* a push_changes that tries a failed push once more
push_changes_pushed_retry(c, o) ==
    IF /\ o.kind = "exit" /\ o.rc # 0
       /\ Cardinality({i \in 1..Len(c.t.log) : c.t.log[i].op = "push"}) = 1
    THEN Execute(c, "push", c.t.branch_name, "push")
    ELSE ReturnPush(c, IF o.kind = "raise" THEN StepException
                       ELSE [success |-> o.rc = 0, action |-> "pushed",
                             branch |-> c.t.branch_name,
                             output |-> o.stdout, error |-> ErrorOf(o)])

\* a push_changes without its try/except: what the runner raises reaches the
\* handler of github_push
push_changes_pushed_raising(c, o) ==
    IF o.kind = "raise" THEN Respond(c, 500, ErrorBody)
    ELSE ReturnPush(c, [success |-> o.rc = 0, action |-> "pushed",
                        branch |-> c.t.branch_name,
                        output |-> o.stdout, error |-> ErrorOf(o)])

push_changes_pushed(c, o) ==
    ReturnPush(c, IF o.kind = "raise" THEN StepException
                  ELSE [success |-> o.rc = 0, action |-> "pushed",
                        branch |-> c.t.branch_name,
                        output |-> o.stdout, error |-> ErrorOf(o)])

(* github_push, lines 80-93 *)
github_push_after_commit(c) ==
    IF StepFailed(c.t.commit_result)
    THEN Respond(c, 400, FailureBody(<<"Failed", "to", "commit", "changes">>, c.t.commit_result))
    ELSE push_changes(c)

RECURSIVE commit_changes(_)

\* commit_changes returns to its caller: github_push, or the direct caller,
\* which calls it a second time on the repository as the first call left it
ReturnCommit(c, result) ==
    LET c1 == [c EXCEPT !.t.commit_result = result,
                        !.t.calls = Append(@, [result |-> result, upto |-> Len(c.t.log)])]
    IN  IF c.sched = "direct"
        THEN IF Len(c1.t.calls) < 2 THEN ByValue({commit_changes(x) : x \in {c1}})
             ELSE DirectDone(c1)
        ELSE ByValue({github_push_after_commit(x) : x \in {c1}})

(* commit_changes, lines 245-273 *)
NothingToCommit == <<"nothing", "to", "commit">>

commit_changes(c) ==
    IF ChdirRaises(c, c.t.repo_path) THEN ReturnCommit(c, StepException)
    ELSE Execute(Chdir(c, c.t.repo_path), "status", <<>>, "commit_status")

commit_changes_status(c, o) ==
    IF o.kind = "raise" THEN ReturnCommit(c, StepException)
    ELSE IF Contains(o.stdout, NothingToCommit)
    THEN ReturnCommit(c, [success |-> TRUE, action |-> "no_changes",
                          message |-> <<"No", "changes", "to", "commit">>])
    ELSE Execute(c, "commit", c.t.commit_message, "commit")

commit_changes_committed(c, o) ==
    ReturnCommit(c, IF o.kind = "raise" THEN StepException
                    ELSE [success |-> o.rc = 0, action |-> "committed",
                          commit_message |-> c.t.commit_message,
                          output |-> o.stdout, error |-> ErrorOf(o)])

(* github_push, lines 68-81 *)
github_push_after_stage(c) ==
    IF StepFailed(c.t.stage_result)
    THEN Respond(c, 400, FailureBody(<<"Failed", "to", "stage", "changes">>, c.t.stage_result))
    ELSE commit_changes(c)

\* stage_changes returns to its caller
ReturnStage(c, result) ==
    LET c1 == [c EXCEPT !.t.stage_result = result] IN
    IF c.sched = "direct" THEN ByValue({commit_changes(x) : x \in {c1}})
    ELSE ByValue({github_push_after_stage(x) : x \in {c1}})

(* stage_changes, lines 203-243 *)
stage_changes(c) ==
    IF ChdirRaises(c, c.t.repo_path) THEN ReturnStage(c, StepException)
    ELSE Execute(Chdir(c, c.t.repo_path), "status", <<>>, "stage_status")

\* `any(...)` in place of `all(...)`
AnySucceeded(results) == \E i \in 1..Len(results) : results[i].success

\* `all(r["success"] for r in results)`
AllSucceeded(results) == \A i \in 1..Len(results) : results[i].success

\* `if specific_files is not None:`
SpecificFilesGiven(specific_files) == ~specific_files.none

\* `if specific_files:`, line 212
SpecificFilesTruthy(specific_files) == Truthy(specific_files)

\* `for file in specific_files:` with the files of t.results done: the next
\* file's git add, or lines 223-229 when the list is exhausted
stage_changes_next(c) ==
    LET files == c.t.specific_files.v
        results == c.t.results
    IN  IF Len(results) < Len(files)
        THEN Execute(c, "add", files[Len(results) + 1], "add_file")
        ELSE ReturnStage(c, [success |-> AllSucceeded(results),
                             action |-> "staged_specific_files",
                             files |-> files, results |-> results])

\* a stage_changes that starts every `git add` at once instead of awaiting each
stage_changes_status_gather(c, o) ==
    IF o.kind = "raise" THEN ReturnStage(c, StepException)
    ELSE IF Truthy(c.t.specific_files)
    THEN LET files == c.t.specific_files.v
             first == Execute([c EXCEPT !.t.results = <<>>], "add", files[1], "add_file")
         IN  IF Len(files) > 1 THEN Execute(first, "add", files[2], "add_file") ELSE first
    ELSE Execute(c, "add_all", <<".">>, "add_all")

stage_changes_status(c, o) ==
    IF o.kind = "raise" THEN ReturnStage(c, StepException)
    ELSE IF SpecificFilesTruthy(c.t.specific_files)
    THEN stage_changes_next([c EXCEPT !.t.results = <<>>])
    ELSE Execute(c, "add_all", <<".">>, "add_all")

\* one turn of `for file in specific_files:`, lines 214-229
stage_changes_added(c, o) ==
    IF o.kind = "raise" THEN ReturnStage(c, StepException)
    ELSE LET files == c.t.specific_files.v
             file == files[Len(c.t.results) + 1]
             results == Append(c.t.results,
                               [file |-> file, success |-> o.rc = 0,
                                output |-> o.stdout, error |-> ErrorOf(o)])
         IN  stage_changes_next([c EXCEPT !.t.results = results])

stage_changes_added_all(c, o) ==
    ReturnStage(c, IF o.kind = "raise" THEN StepException
                   ELSE [success |-> o.rc = 0, action |-> "staged_all",
                         output |-> o.stdout, error |-> ErrorOf(o)])

(* github_push, lines 55-69 *)
github_push_after_clone(c) ==
    IF StepFailed(c.t.clone_result)
    THEN Respond(c, 400, FailureBody(<<"Failed", "to", "clone", "repository">>, c.t.clone_result))
    ELSE ByValue({stage_changes(x) : x \in {[c EXCEPT !.t.repo_path = c.t.clone_result.repo_path]}})

ReturnClone(c, result) ==
    ByValue({github_push_after_clone(x) : x \in {[c EXCEPT !.t.clone_result = result]}})

(* clone_repository, lines 162-201 *)
clone_repository(c) ==
    LET directory == c.t.clone_directory
        repo_url == c.t.repo_url.s
    IN  IF ~PathExists(c, directory) /\ MakedirsRaises(c, directory)
        THEN ReturnClone(c, StepException)
        ELSE LET c1 == IF ~PathExists(c, directory) THEN Makedirs(c, directory) ELSE c
                 repo_path == PathJoin(directory, RepoName(repo_url))
             IN  IF PathExists(c1, repo_path)
                 THEN IF ChdirRaises(c1, repo_path) THEN ReturnClone(c1, StepException)
                      ELSE Execute(Chdir(c1, repo_path), "pull", <<>>, "pull")
                 ELSE IF ChdirRaises(c1, directory) THEN ReturnClone(c1, StepException)
                      ELSE Execute(Chdir(c1, directory), "clone", repo_url, "clone")

\* repo_path as clone_repository computed it at line 171
CloneRepoPath(c) == PathJoin(c.t.clone_directory, RepoName(c.t.repo_url.s))

\* a pull whose exit status is not looked at
clone_repository_pulled_unchecked(c, o) ==
    ReturnClone(c, IF o.kind = "raise" THEN StepException
                   ELSE [success |-> TRUE, action |-> "pulled",
                         repo_path |-> CloneRepoPath(c),
                         output |-> o.stdout, error |-> ErrorOf(o)])

clone_repository_pulled(c, o) ==
    ReturnClone(c, IF o.kind = "raise" THEN StepException
                   ELSE [success |-> o.rc = 0, action |-> "pulled",
                         repo_path |-> CloneRepoPath(c),
                         output |-> o.stdout, error |-> ErrorOf(o)])

clone_repository_cloned(c, o) ==
    ReturnClone(c, IF o.kind = "raise" THEN StepException
                   ELSE [success |-> o.rc = 0, action |-> "cloned",
                         repo_path |-> CloneRepoPath(c),
                         output |-> o.stdout, error |-> ErrorOf(o)])

\* repo_name and repo_path, lines 52-53
DeriveRepoPath(c) ==
    LET t == c.t
        repo_name == IF UrlTruthy(t.repo_url) THEN Some(RepoName(t.repo_url.s)) ELSE None
        repo_path == IF Truthy(repo_name) THEN PathJoin(t.clone_directory, repo_name.v)
                     ELSE t.clone_directory
    IN  [c EXCEPT !.t.repo_name = repo_name, !.t.repo_path = repo_path]

\* a handler without the configuration gate
NotConfiguredIgnored(git_config) == FALSE

\* `if not git_config["is_configured"]:`, line 41
NotConfigured(git_config) == ~git_config.is_configured

(* github_push, lines 41-56 *)
github_push_after_config(c) ==
    LET t == c.t IN
    IF NotConfigured(t.git_config)
    THEN Respond(c, 400, FailureBody(<<"Git", "is", "not", "properly", "configured">>,
                                     t.git_config))
    ELSE IF t.repo_url.kind = "int"
    THEN \* repo_url.split raises AttributeError: lines 119-127
         Respond(c, 500, ErrorBody)
    ELSE LET c1 == DeriveRepoPath(c)
         IN  IF UrlTruthy(t.repo_url) THEN ByValue({clone_repository(x) : x \in {c1}})
             ELSE ByValue({stage_changes(x) : x \in {c1}})

ReturnConfig(c, result) ==
    ByValue({github_push_after_config(x) : x \in {[c EXCEPT !.t.git_config = result]}})

(* check_git_config, lines 129-160 *)
ConfigException ==
    [is_configured |-> FALSE, git_installed |-> FALSE, error |-> <<"exception">>]

check_git_config(c) == Execute(c, "version", <<>>, "version")

check_git_config_version(c, o) ==
    IF o.kind = "raise" THEN ReturnConfig(c, ConfigException)
    ELSE IF o.rc # 0
    THEN ReturnConfig(c, [is_configured |-> FALSE, git_installed |-> FALSE,
                          error |-> <<"Git", "is", "not", "installed">>])
    ELSE Execute(c, "user.name", <<>>, "username")

\* the value without .strip()
ConfigValueUnstripped(o) == IF o.rc = 0 THEN Some(o.stdout) ELSE None

\* `x.stdout.strip() if x.returncode == 0 else None`
ConfigValue(o) == IF o.rc = 0 THEN Some(Strip(o.stdout)) ELSE None

check_git_config_username(c, o) ==
    IF o.kind = "raise" THEN ReturnConfig(c, ConfigException)
    ELSE Execute([c EXCEPT !.t.username = ConfigValue(o)], "user.email", <<>>, "email")

check_git_config_email(c, o) ==
    IF o.kind = "raise" THEN ReturnConfig(c, ConfigException)
    ELSE LET username == c.t.username
             email == ConfigValue(o)
         IN  ReturnConfig(c, [is_configured |-> Truthy(username) /\ Truthy(email),
                              git_installed |-> TRUE,
                              username |-> username, email |-> email])

(* github_push, lines 30-40; t.start remembers the process state the request
   found *)
github_push(c, repo_url, clone_directory, specific_files) ==
    check_git_config(
        [c EXCEPT !.t.start = [cwd |-> c.cwd, dirs |-> c.dirs],
                  !.t.repo_url = repo_url,
                  !.t.clone_directory =
                      IF clone_directory.none THEN Path(TRUE, c.cwd) ELSE clone_directory.v,
                  !.t.commit_message = <<"fix", "bug">>,
                  !.t.branch_name = <<"main">>,
                  !.t.specific_files = specific_files])

-----------------------------------------------------------------------------
(* Requests and initial states *)

W == <<"w">>

D == <<"d">>

\* "o/a.git"
UrlGit == <<"o", "/", "a", ".", "g", "i", "t">>

\* "o/a.gita": ".git" inside the last segment, not at its end
UrlMid == <<"o", "/", "a", ".", "g", "i", "t", "a">>

RepoUrls == {NoUrl, StrUrl(<<>>), StrUrl(UrlGit), StrUrl(UrlMid), IntUrl}

\* clone_directory: absent, "/d", or the relative "d"
CloneDirectories == {None, Some(Path(TRUE, <<D>>)), Some(Path(FALSE, <<D>>))}

\* lists of distinct entries, in every order, up to MaxFiles long
RECURSIVE ListsOver(_, _)
ListsOver(S, n) ==
    IF n = 0 THEN {<<>>}
    ELSE LET shorter == ListsOver(S, n - 1)
         IN  shorter \cup {Append(l, x) : l \in {k \in shorter : Len(k) = n - 1},
                                          x \in S}

Distinct(l) == \A i, j \in 1..Len(l) : i # j => l[i] # l[j]

FileLists(S) == {l \in ListsOver(S, MaxFiles) : Distinct(l)}

\* a file name that is not in the repository
Missing == <<"m">>

\* specific_files: absent, or a list of file names
SpecificFiles == {None} \cup {Some(l) : l \in FileLists(Files \cup {Missing})}

\* directories that may exist before the first request: earlier clones
Earlier == {<<W, <<"a">>>>, <<D, <<"a">>>>, <<W, D, <<"a">>>>}

\* a directory d inside the directory /w/d
Nested == <<W, D, D>>

Closure(S) == UNION {Prefixes(a) : a \in S}

InitProcess ==
    /\ cwd = <<W>>
    /\ task = [r \in Reqs |-> IdleTask]

Init ==
    /\ InitProcess
    /\ sched = "single"
    /\ \/ \E pre \in SUBSET Earlier : dirs = Closure({<<W>>} \cup pre)
       \/ dirs = Closure({<<W>>, Nested})
    /\ perm \in {{}, {<<>>}}
    /\ tree = [f \in Files |-> "clean"]

\* concurrent requests work in existing repositories, one directory each
ReqDir(r) == IF r = 1 THEN D ELSE <<"e">>

InitConcurrent ==
    /\ InitProcess
    /\ sched = "concurrent"
    /\ dirs = Closure({<<W>>} \cup {<<ReqDir(r)>> : r \in Reqs})
    /\ perm = {}
    /\ tree = [f \in Files |-> "clean"]

\* requests handled one after the other leave clone_directory to its default
InitSerial ==
    /\ InitProcess
    /\ sched = "serial"
    /\ \E pre \in SUBSET {<<W, <<"a">>>>} : dirs = Closure({<<W>>} \cup pre)
    /\ perm = {}
    /\ tree = [f \in Files |-> "clean"]

\* the parameters a request may carry
RepoUrlsOf(r) ==
    CASE sched = "concurrent" -> {NoUrl}
      [] sched = "serial" -> {NoUrl, StrUrl(UrlGit)}
      [] OTHER -> RepoUrls

CloneDirectoriesOf(r) ==
    CASE sched = "concurrent" -> {Some(Path(TRUE, <<ReqDir(r)>>))}
      [] sched = "serial" -> {None}
      [] OTHER -> CloneDirectories

SpecificFilesOf(r) ==
    CASE sched = "concurrent" -> {None, Some(<<<<"a">>>>)}
      [] sched = "serial" -> {None, Some(<<<<"a">>>>)}
      [] OTHER -> SpecificFiles

\* every string over Chars up to MaxUrlLen long
RECURSIVE Strings(_)
Strings(n) ==
    IF n = 0 THEN {<<>>}
    ELSE LET shorter == Strings(n - 1)
         IN  shorter \cup {Append(u, ch) : u \in {v \in shorter : Len(v) = n - 1},
                                           ch \in Chars}

\* the name derivation on its own: a request with any repo_url
InitName ==
    /\ cwd = <<W>>
    /\ sched = "name"
    /\ dirs = Closure({<<W>>})
    /\ perm = {}
    /\ tree = [f \in Files |-> "clean"]
    /\ \E u \in Strings(MaxUrlLen) :
          task = [r \in Reqs |-> [IdleTask EXCEPT !.repo_url = StrUrl(u)]]

InitDirect ==
    /\ InitProcess
    /\ sched = "direct"
    /\ dirs = Closure({<<W>>})
    /\ perm = {}
    /\ tree \in [Files -> FileStates]

-----------------------------------------------------------------------------
(* Actions: a request arrives, or an awaited command ends *)

\* which requests the server lets start
MayBegin(r) ==
    CASE sched = "single" -> r = 1
      [] sched = "serial" -> \A q \in Reqs : q < r => task[q].pc = "done"
      [] sched = "concurrent" -> TRUE
      [] OTHER -> FALSE

Begin(r) ==
    /\ task[r].pc = "idle"
    /\ MayBegin(r)
    /\ \E u \in RepoUrlsOf(r), d \in CloneDirectoriesOf(r), f \in SpecificFilesOf(r) :
          Install(r, github_push(Ctx(r), u, d, f))

\* An awaited command ends with one of its possible results, and the code
\* runs on from there to its next suspension point or to its return.
Results(r) == Outcomes(Ctx(r), Awaited(Ctx(r)))

Resumed(r, o) == Resume(Ctx(r), o)

RetVersion(r) ==
    /\ task[r].pc = "version"
    /\ \E o \in Results(r) : \E c \in {Resumed(r, o)} : Install(r, check_git_config_version(c, o))

RetUsername(r) ==
    /\ task[r].pc = "username"
    /\ \E o \in Results(r) : \E c \in {Resumed(r, o)} : Install(r, check_git_config_username(c, o))

RetEmail(r) ==
    /\ task[r].pc = "email"
    /\ \E o \in Results(r) : \E c \in {Resumed(r, o)} : Install(r, check_git_config_email(c, o))

RetPull(r) ==
    /\ task[r].pc = "pull"
    /\ \E o \in Results(r) : \E c \in {Resumed(r, o)} : Install(r, clone_repository_pulled(c, o))

RetClone(r) ==
    /\ task[r].pc = "clone"
    /\ \E o \in Results(r) : \E c \in {Resumed(r, o)} : Install(r, clone_repository_cloned(c, o))

RetStageStatus(r) ==
    /\ task[r].pc = "stage_status"
    /\ \E o \in Results(r) : \E c \in {Resumed(r, o)} : Install(r, stage_changes_status(c, o))

RetAddFile(r) ==
    /\ task[r].pc = "add_file"
    /\ \E o \in Results(r) : \E c \in {Resumed(r, o)} : Install(r, stage_changes_added(c, o))

RetAddAll(r) ==
    /\ task[r].pc = "add_all"
    /\ \E o \in Results(r) : \E c \in {Resumed(r, o)} : Install(r, stage_changes_added_all(c, o))

RetCommitStatus(r) ==
    /\ task[r].pc = "commit_status"
    /\ \E o \in Results(r) : \E c \in {Resumed(r, o)} : Install(r, commit_changes_status(c, o))

RetCommit(r) ==
    /\ task[r].pc = "commit"
    /\ \E o \in Results(r) : \E c \in {Resumed(r, o)} : Install(r, commit_changes_committed(c, o))

RetPush(r) ==
    /\ task[r].pc = "push"
    /\ \E o \in Results(r) : \E c \in {Resumed(r, o)} : Install(r, push_changes_pushed(c, o))

\* a direct caller stages in the repository at the working directory and
\* then calls commit_changes twice
DirectCall(r) ==
    /\ sched = "direct"
    /\ r = 1
    /\ task[r].pc = "idle"
    /\ \E f \in SpecificFiles :
          Install(r, stage_changes([Ctx(r) EXCEPT !.t.repo_path = Path(TRUE, cwd),
                                                  !.t.commit_message = <<"fix", "bug">>,
                                                  !.t.specific_files = f]))

Next ==
    \E r \in Reqs :
        \/ Begin(r)
        \/ RetVersion(r)
        \/ RetUsername(r)
        \/ RetEmail(r)
        \/ RetPull(r)
        \/ RetClone(r)
        \/ RetStageStatus(r)
        \/ RetAddFile(r)
        \/ RetAddAll(r)
        \/ RetCommitStatus(r)
        \/ RetCommit(r)
        \/ RetPush(r)

Spec == Init /\ [][Next]_vars

\* the awaited command of request r ends
CommandEnds(r) ==
    \/ RetVersion(r)
    \/ RetUsername(r)
    \/ RetEmail(r)
    \/ RetPull(r)
    \/ RetClone(r)
    \/ RetStageStatus(r)
    \/ RetAddFile(r)
    \/ RetAddAll(r)
    \/ RetCommitStatus(r)
    \/ RetCommit(r)
    \/ RetPush(r)

\* one request, with or without an earlier clone in /w
InitLive ==
    /\ InitProcess
    /\ sched = "single"
    /\ \E pre \in SUBSET {<<W, <<"a">>>>} : dirs = Closure({<<W>>} \cup pre)
    /\ perm \in {{}, {<<>>}}
    /\ tree = [f \in Files |-> "clean"]

\* every command the handler awaits ends at some time, and the event loop then
\* resumes the coroutine
SpecLive == InitLive /\ [][Next]_vars /\ \A r \in Reqs : WF_vars(CommandEnds(r))

\* the same handler, with the second request arriving when the first has been
\* answered
SpecSerial == InitSerial /\ [][Next]_vars

\* the same handler, with the requests interleaved at their suspension points
NextConcurrent ==
    \E r \in Reqs :
        \/ Begin(r)
        \/ RetVersion(r)
        \/ RetUsername(r)
        \/ RetEmail(r)
        \/ RetStageStatus(r)
        \/ RetAddFile(r)
        \/ RetAddAll(r)
        \/ RetCommitStatus(r)
        \/ RetCommit(r)
        \/ RetPush(r)

SpecConcurrent == InitConcurrent /\ [][NextConcurrent]_vars

\* lines 52-53 applied to the request's repo_url
DeriveName(r) ==
    /\ sched = "name"
    /\ r = 1
    /\ task[r].pc = "idle"
    /\ Install(r, [DeriveRepoPath(Ctx(r)) EXCEPT !.t.pc = "named"])

NextName == \E r \in Reqs : DeriveName(r)

SpecName == InitName /\ [][NextName]_vars

NextDirect ==
    \E r \in Reqs :
        \/ DirectCall(r)
        \/ RetStageStatus(r)
        \/ RetAddFile(r)
        \/ RetAddAll(r)
        \/ RetCommitStatus(r)
        \/ RetCommit(r)

SpecDirect == InitDirect /\ [][NextDirect]_vars

-----------------------------------------------------------------------------
(* Properties *)

\* the step a command belongs to, by the await that issued it
StepRank(at) ==
    CASE at \in {"version", "username", "email"} -> 1
      [] at \in {"pull", "clone"} -> 2
      [] at \in {"stage_status", "add_file", "add_all"} -> 3
      [] at \in {"commit_status", "commit"} -> 4
      [] at = "push" -> 5

Ranks(r) == {StepRank(task[r].log[i].at) : i \in 1..Len(task[r].log)}

Ops(r) == {task[r].log[i].op : i \in 1..Len(task[r].log)}

Ran(result) == result # NotRun

Succeeded(result) == "success" \in DOMAIN result /\ result.success

Failed(result) == "success" \in DOMAIN result /\ ~result.success

Unconfigured(r) == Ran(task[r].git_config) /\ ~task[r].git_config.is_configured

\* the results of the five steps of request r, in order
StepResults(r) ==
    <<task[r].git_config, task[r].clone_result, task[r].stage_result,
      task[r].commit_result, task[r].push_result>>

\* step k of request r has reported failure
StepReportedFailure(r, k) ==
    IF k = 1 THEN Unconfigured(r) ELSE Failed(StepResults(r)[k])

Responded(r) == task[r].pc = "done" /\ task[r].resp.status # 0

\* C1: once a step of a request reports failure, the request has ended with a
\* failure response (success = false), none of its commands is still running,
\* and no command of a later step was issued for it.
C1_ShortCircuit ==
    \A r \in Reqs : \A k \in 1..5 :
        StepReportedFailure(r, k) =>
            /\ Responded(r)
            /\ task[r].resp.body.success = FALSE
            /\ task[r].inflight = {}
            /\ \A j \in Ranks(r) : j <= k

\* a request whose stage step failed after clone succeeded
C1_Witness ==
    \E r \in Reqs :
        /\ Succeeded(task[r].clone_result)
        /\ StepReportedFailure(r, 3)
        /\ 3 \in Ranks(r)
        /\ task[r].resp.status = 400

\* C2: the commands of a request appear in step order (configuration check,
\* clone-or-pull only when repo_url is given, stage, commit, push); a command of
\* a step is issued only when every earlier step that applies has completed
\* successfully; and at most one command of a request is in flight.
C2_StrictOrder ==
    \A r \in Reqs :
        LET t == task[r]
            log == t.log
            ranks == Ranks(r)
            step == StepResults(r)
        IN  /\ \A i \in 1..(Len(log) - 1) :
                  StepRank(log[i].at) <= StepRank(log[i + 1].at)
            /\ Cardinality(t.inflight) <= 1
            /\ (ranks \ {1} # {}) => Ran(t.git_config) /\ t.git_config.is_configured
            /\ (2 \in ranks) => UrlTruthy(t.repo_url)
            /\ (ranks \cap {3, 4, 5} # {}) =>
                  IF UrlTruthy(t.repo_url) THEN Succeeded(t.clone_result)
                  ELSE t.clone_result = NotRun
            /\ (ranks \cap {4, 5} # {}) => Succeeded(t.stage_result)
            /\ (5 \in ranks) => Succeeded(t.commit_result)
            /\ \A k \in 2..5 :
                  (Ran(step[k]) /\ "action" \in DOMAIN step[k]) => k \in ranks

\* a request that went through all five steps, two files staged one by one
C2_Witness ==
    \E r \in Reqs :
        /\ task[r].resp.status = 200
        /\ Ranks(r) = 1..5
        /\ Len(task[r].results) = 2

\* C3: when the configuration check yields is_configured = false, the request
\* has returned status 400 with the configuration result as details, only
\* commands of the configuration check were issued, and the working directory
\* and the directories on disk are as the request found them.
C3_ConfigurationGate ==
    \A r \in Reqs :
        Unconfigured(r) =>
            /\ Responded(r)
            /\ task[r].resp.status = 400
            /\ task[r].resp.body.details = task[r].git_config
            /\ task[r].resp.body.details.is_configured = FALSE
            /\ Ops(r) \subseteq {"version", "user.name", "user.email"}
            /\ cwd = task[r].start.cwd
            /\ dirs = task[r].start.dirs

\* git is installed and user.name is set, but user.email is not, for a request
\* that names a repository to clone into a directory that does not exist
C3_Witness ==
    \E r \in Reqs :
        /\ Unconfigured(r)
        /\ task[r].git_config.git_installed
        /\ Truthy(task[r].git_config.username)
        /\ ~Truthy(task[r].git_config.email)
        /\ task[r].repo_url = StrUrl(UrlGit)
        /\ ~PathExists(Ctx(r), task[r].clone_directory)

StepNames == <<"git_config", "clone", "stage", "commit", "push">>

\* the one step among clone, stage, commit, push that failed, if any
FailedStep(r) == CHOOSE k \in 2..5 : StepReportedFailure(r, k)

SomeStepFailed(r) == \E k \in 2..5 : StepReportedFailure(r, k)

LastIssued(r) == task'[r].log[Len(task'[r].log)]

\* request r is resumed inside stage_changes or commit_changes
ResumesInStep(r) == task[r].pc \in {"stage_status", "add_file", "commit_status"}

\* C5: a git add or git commit that a request issues when it is resumed inside
\* a step runs in the working directory the process has at that moment,
\* whichever request set it; with two requests on different repository paths
\* that directory can be the other request's repository path (C5_Witness).
C5_RunsInProcessCwd ==
    [][\A r \in Reqs :
          (/\ ResumesInStep(r)
           /\ Len(task'[r].log) = Len(task[r].log) + 1
           /\ LastIssued(r).at \in {"add_file", "add_all", "commit"})
              => LastIssued(r).cwd = cwd]_vars

\* the absolute repository path of request r
RepoDir(r) == Resolve(task[r].start.cwd, task[r].repo_path)

\* a git add or git commit of one request ran in the other request's repository
C5_Witness ==
    \E r, q \in Reqs :
        /\ r # q
        /\ task[r].pc # "idle" /\ task[q].pc # "idle"
        /\ RepoDir(r) # RepoDir(q)
        /\ \E i \in 1..Len(task[r].log) :
              /\ task[r].log[i].op \in {"add", "add_all", "commit"}
              /\ task[r].log[i].cwd = RepoDir(q)

\* the positions in request r's log of the commands with an op in S
Issued(r, S) == {i \in 1..Len(task[r].log) : task[r].log[i].op \in S}

\* the second of the two direct calls of commit_changes has returned
CalledTwice(r) == sched = "direct" /\ Len(task[r].calls) = 2

\* C6 as claimed: whatever the state of the repository, the second of two
\* commit_changes calls in a row returns success = true, action = "no_changes"
\* and issues no git commit.
C6_Claimed ==
    \A r \in Reqs :
        CalledTwice(r) =>
            LET second == task[r].calls[2].result
                during == (task[r].calls[1].upto + 1)..task[r].calls[2].upto
            IN  /\ second.success
                /\ "action" \in DOMAIN second /\ second.action = "no_changes"
                /\ Issued(r, {"commit"}) \cap during = {}

\* the last path segment of the request's URL
LastSegment(r) == SplitLast(task[r].repo_url.s)

\* C7 as claimed: the derived name is the last segment of repo_url without a
\* trailing ".git"; a segment that does not end in ".git" is the name unchanged.
C7_Claimed ==
    \A r \in Reqs :
        (task[r].pc = "named" /\ ~task[r].repo_name.none) =>
            /\ task[r].repo_name.v = StripSuffix(LastSegment(r), DOTGIT)
            /\ ~IsSuffix(DOTGIT, LastSegment(r)) => task[r].repo_name.v = LastSegment(r)

\* a request whose repo_url is absent or the empty string
NoRepoUrl(r) ==
    /\ task[r].pc # "idle"
    /\ task[r].repo_url.kind \in {"none", "str"}
    /\ task[r].repo_url.s = <<>>

\* C8: a request without repo_url (absent or empty) never issues git clone or
\* git pull and never runs the clone step; its success response reports the
\* clone step as "Skipped"; and stage, commit and push work on clone_directory.
C8_NoUrlNoClone ==
    \A r \in Reqs :
        NoRepoUrl(r) =>
            /\ Issued(r, {"clone", "pull"}) = {}
            /\ task[r].clone_result = NotRun
            /\ task[r].resp.status = 200 => task[r].resp.body.details.clone = Skipped
            /\ (Ranks(r) \cap {3, 4, 5} # {}) => task[r].repo_path = task[r].clone_directory
            /\ \A k \in 3..5 :
                  Ran(StepResults(r)[k]) => task[r].repo_path = task[r].clone_directory

\* a request with repo_url = "" and a clone_directory of its own that went
\* through stage, commit and push
C8_Witness ==
    \E r \in Reqs :
        /\ NoRepoUrl(r)
        /\ task[r].repo_url = StrUrl(<<>>)
        /\ task[r].clone_directory = Path(TRUE, <<D>>)
        /\ task[r].resp.status = 200
        /\ {3, 4, 5} \subseteq Ranks(r)

\* clone_repository has returned for request r
CloneReturned(r) == Ran(task[r].clone_result)

\* the derived repository path existed when clone_repository looked
RepoPathExisted(r) ==
    Resolve(task[r].start.cwd, CloneRepoPath(Ctx(r))) \in task[r].start.dirs

\* the result reports `action` for a command of op `op` issued exactly once,
\* none of op `other`, and success iff that command's exit status is zero
ReportsOne(r, op, other, action) ==
    LET result == task[r].clone_result IN
    /\ Cardinality(Issued(r, {op})) = 1
    /\ Issued(r, {other}) = {}
    /\ "action" \in DOMAIN result /\ result.action = action
    /\ \A i \in Issued(r, {op}) :
          /\ task[r].log[i].result.kind = "exit"
          /\ result.success <=> (task[r].log[i].result.rc = 0)

ReturnedByException(r, result, ops) ==
    /\ result = StepException
    /\ Cardinality(Issued(r, ops)) <= 1
    /\ \A i \in Issued(r, ops) : task[r].log[i].result.kind = "raise"

StagedSpecific(r) == Ran(task[r].stage_result) /\ Truthy(task[r].specific_files)

\* the files of the git add commands of request r, in the order issued
RECURSIVE AddedFrom(_, _)
AddedFrom(log, i) ==
    IF i > Len(log) THEN <<>>
    ELSE (IF log[i].op = "add" THEN <<log[i]>> ELSE <<>>) \o AddedFrom(log, i + 1)

Adds(r) == AddedFrom(task[r].log, 1)

\* one git add per listed file, in list order, whatever their exit statuses;
\* each per-file result reports its own add; success iff all exited with zero
StagedEach(r) ==
    LET files == task[r].specific_files.v
        result == task[r].stage_result
        adds == Adds(r)
    IN  /\ Len(adds) = Len(files)
        /\ \A i \in 1..Len(files) : adds[i].arg = files[i] /\ adds[i].result.kind = "exit"
        /\ Issued(r, {"add_all"}) = {}
        /\ "results" \in DOMAIN result
        /\ Len(result.results) = Len(files)
        /\ \A i \in 1..Len(files) :
              /\ result.results[i].file = files[i]
              /\ result.results[i].success <=> (adds[i].result.rc = 0)
        /\ result.success <=> \A i \in 1..Len(files) : adds[i].result.rc = 0

\* the positions of the commands stage_changes issued
StageCommands(r) ==
    {i \in 1..Len(task[r].log) : task[r].log[i].at \in {"stage_status", "add_file", "add_all"}}

\* C10 as claimed: for a non-empty specific_files, stage_changes issues one
\* git add per file in list order, goes on after an add that fails, reports
\* each file's own exit status and succeeds iff every add succeeded.
C10_Claimed == \A r \in Reqs : StagedSpecific(r) => StagedEach(r)

\* C10: when stage_changes returns a result with an action, the claim holds as
\* made: an add that exits with a non-zero status does not stop the others.
\* Otherwise os.chdir or the command runner raised: the files after the
\* command that raised are not added, and the result is success = false with
\* no per-file results.
C10_StageSpecific ==
    \A r \in Reqs :
        StagedSpecific(r) =>
            IF "action" \in DOMAIN task[r].stage_result THEN StagedEach(r)
            ELSE LET files == task[r].specific_files.v
                     adds == Adds(r)
                 IN  /\ task[r].stage_result = StepException
                     /\ Len(adds) <= Len(files)
                     /\ \A i \in 1..Len(adds) :
                           /\ adds[i].arg = files[i]
                           /\ i < Len(adds) => adds[i].result.kind = "exit"
                     /\ \A i \in StageCommands(r) :
                           (task[r].log[i].result.kind = "raise")
                               <=> (i = Len(task[r].log))

\* the first of two files could not be added, the second was added after it
C10_Witness ==
    \E r \in Reqs :
        /\ StagedSpecific(r)
        /\ Len(Adds(r)) = 2
        /\ Adds(r)[1].result.rc # 0
        /\ Adds(r)[2].result.rc = 0
        /\ task[r].stage_result.results[2].success
        /\ ~task[r].stage_result.success

\* the failure result a step function returns from its exception handler
CaughtResult(k) == IF k = 1 THEN ConfigException ELSE StepException

\* the positions in request r's log of the commands that raised
RaisedIn(r) == {i \in 1..Len(task[r].log) : task[r].log[i].result.kind = "raise"}

\* request r ended with the status-400 response of step k, whose details are
\* the step's failure result with its error message
EndedWithFailureOf(r, k) ==
    /\ Responded(r)
    /\ task[r].resp.status = 400
    /\ task[r].resp.body.details = StepResults(r)[k]
    /\ "error" \in DOMAIN StepResults(r)[k]
    /\ StepReportedFailure(r, k)

\* C11: when the command runner raises inside a step function, or a filesystem
\* operation of a step function does, the function returns its structured
\* failure result and the request ends with the status-400 response of that
\* step; a request that ended with status 500 saw no step function raise: the
\* exception came from github_push itself (repo_url.split on a value that is
\* no string).
C11_StepsCatch ==
    \A r \in Reqs :
        /\ \A i \in RaisedIn(r) :
              LET k == StepRank(task[r].log[i].at)
              IN  StepResults(r)[k] = CaughtResult(k) /\ EndedWithFailureOf(r, k)
        /\ \A k \in 1..5 :
              StepResults(r)[k] = CaughtResult(k) => EndedWithFailureOf(r, k)
        /\ task[r].resp.status = 500 =>
              /\ RaisedIn(r) = {}
              /\ \A k \in 1..5 : StepResults(r)[k] # CaughtResult(k)
              /\ task[r].git_config.is_configured
              /\ task[r].repo_url.kind = "int"
              /\ Ranks(r) = {1}

\* git push raised after clone, stage and commit had succeeded
C11_Witness ==
    \E r \in Reqs :
        /\ \E i \in RaisedIn(r) : task[r].log[i].op = "push"
        /\ Succeeded(task[r].commit_result)
        /\ task[r].push_result = StepException
        /\ task[r].resp.status = 400

\* the configuration check passed and clone-or-pull (when repo_url is given),
\* stage, commit and push all ran and reported success
AllStepsSucceeded(r) ==
    /\ Ran(task[r].git_config) /\ task[r].git_config.is_configured
    /\ UrlTruthy(task[r].repo_url) => Succeeded(task[r].clone_result)
    /\ Succeeded(task[r].stage_result)
    /\ Succeeded(task[r].commit_result)
    /\ Succeeded(task[r].push_result)

\* a step reported a controlled failure
ControlledFailure(r) == \E k \in 1..5 : StepReportedFailure(r, k)

\* an exception reached the handler of github_push: line 52 raised on a
\* repo_url that is no string, after the configuration check had passed
UnhandledException(r) ==
    /\ Ran(task[r].git_config) /\ task[r].git_config.is_configured
    /\ task[r].repo_url.kind = "int"

\* C12: a response has status 200 iff the configuration check and every step
\* succeeded, 400 iff a step reported a controlled failure, 500 iff an
\* exception reached the handler of github_push; the body's success flag is
\* true exactly when the status is 200.
C12_StatusCodes ==
    \A r \in Reqs :
        Responded(r) =>
            /\ task[r].resp.status \in {200, 400, 500}
            /\ (task[r].resp.status = 200) <=> AllStepsSucceeded(r)
            /\ (task[r].resp.status = 400) <=> ControlledFailure(r)
            /\ (task[r].resp.status = 500) <=> UnhandledException(r)
            /\ task[r].resp.body.success <=> (task[r].resp.status = 200)

\* a request that pulled an existing repository and was answered 200
C12_Witness ==
    \E r \in Reqs :
        /\ Responded(r)
        /\ task[r].resp.status = 200
        /\ task[r].resp.body.success
        /\ Succeeded(task[r].clone_result)
        /\ task[r].clone_result.action = "pulled"

MutatingOps == {"clone", "pull", "add", "add_all", "commit", "push"}

\* the mutating commands of a log, in the order issued, each with its argument
RECURSIVE MutatingFrom(_, _)
MutatingFrom(log, i) ==
    IF i > Len(log) THEN <<>>
    ELSE (IF log[i].op \in MutatingOps THEN <<[op |-> log[i].op, arg |-> log[i].arg]>>
          ELSE <<>>) \o MutatingFrom(log, i + 1)

\* every command request r issued has exited with status zero
AllExitedZero(r) ==
    \A i \in 1..Len(task[r].log) :
        task[r].log[i].result.kind = "exit" /\ task[r].log[i].result.rc = 0

\* request r has ended; it named a repository whose derived path did not exist,
\* no directory was write-protected, git was configured and every command
\* exited with status zero
FreshAndClean(r) ==
    /\ task[r].pc = "done"
    /\ perm = {}
    /\ task[r].repo_url.kind = "str" /\ task[r].repo_url.s # <<>>
    /\ ~RepoPathExisted(r)
    /\ Ran(task[r].git_config) /\ task[r].git_config.is_configured
    /\ AllExitedZero(r)

\* C13 as claimed: such a request issued exactly git clone, git add ., git
\* commit with the supplied message and git push of the supplied branch, in
\* that order, and was answered success = true with a message that names the
\* repository and the branch.
C13_Claimed ==
    \A r \in Reqs :
        FreshAndClean(r) =>
            /\ MutatingFrom(task[r].log, 1) =
                  <<[op |-> "clone", arg |-> task[r].repo_url.s],
                    [op |-> "add_all", arg |-> <<".">>],
                    [op |-> "commit", arg |-> task[r].commit_message],
                    [op |-> "push", arg |-> task[r].branch_name]>>
            /\ task[r].resp.status = 200
            /\ task[r].resp.body.success
            /\ Contains(task[r].resp.body.message, RepoName(task[r].repo_url.s))
            /\ Contains(task[r].resp.body.message, task[r].branch_name)

\* stage_changes has returned for a request with specific_files = []
StagedEmptyList(r) == Ran(task[r].stage_result) /\ task[r].specific_files = Some(<<>>)

\* exactly one git add . was issued, no git add <file>, and the result reports
\* "staged_all" with success iff git add . exited with status zero
StagedAllOnce(r) ==
    LET result == task[r].stage_result IN
    /\ Issued(r, {"add"}) = {}
    /\ Cardinality(Issued(r, {"add_all"})) = 1
    /\ "action" \in DOMAIN result /\ result.action = "staged_all"
    /\ \A i \in Issued(r, {"add_all"}) :
          /\ task[r].log[i].result.kind = "exit"
          /\ result.success <=> (task[r].log[i].result.rc = 0)

\* C14 as claimed: stage_changes with specific_files = [] issues a single
\* git add ., no per-file add, and reports action = "staged_all" with success
\* given by that command's exit status.
C14_Claimed == \A r \in Reqs : StagedEmptyList(r) => StagedAllOnce(r)

\* the stage step for specific_files = []: no per-file add; a result with an
\* action is the stage-all result; a result without one comes from the
\* exception handler, and git add ., if it was issued, is what raised
C14_StageAll ==
    \A r \in Reqs :
        StagedEmptyList(r) =>
            /\ Issued(r, {"add"}) = {}
            /\ IF "action" \in DOMAIN task[r].stage_result THEN StagedAllOnce(r)
               ELSE ReturnedByException(r, task[r].stage_result, {"add_all"})

\* the same request with specific_files absent
AsAbsent(c) == [c EXCEPT !.t.specific_files = None]

\* when git status of the stage step ends for a request with
\* specific_files = [], the request goes on as it would with specific_files
\* absent
C14_SameAsAbsent ==
    \A r \in Reqs :
        (/\ task[r].pc = "stage_status"
         /\ task[r].specific_files = Some(<<>>)
         /\ task'[r] # task[r])
            => \E o \in Results(r) :
                  LET c == stage_changes_status(AsAbsent(Resumed(r, o)), o)
                  IN  /\ task'[r] = [c.t EXCEPT !.specific_files = Some(<<>>)]
                      /\ cwd' = c.cwd
                      /\ dirs' = c.dirs

\* C14: stage_changes with specific_files = [] behaves as with specific_files
\* absent.  Unless os.chdir or the command runner raises it issues a single
\* git add ., no per-file add, and reports "staged_all" with success given by
\* the exit status; when one of them raises, the result is success = false
\* with no action, as it is for an absent list.
C14_EmptyListIsAbsent == []C14_StageAll /\ [][C14_SameAsAbsent]_vars

\* git add . exited with a non-zero status for a request with specific_files = []
C14_Witness ==
    \E r \in Reqs :
        /\ StagedEmptyList(r)
        /\ StagedAllOnce(r)
        /\ ~task[r].stage_result.success
        /\ task[r].resp.status = 400

\* check_git_config has returned for request r
ConfigReturned(r) == Ran(task[r].git_config)

\* git --version exited with status zero
VersionSucceeded(r) ==
    \E i \in Issued(r, {"version"}) :
        task[r].log[i].result.kind = "exit" /\ task[r].log[i].result.rc = 0

\* the command that reads a configuration value exited with status zero and
\* printed more than white space
ValuePresent(r, op) ==
    \E i \in Issued(r, {op}) :
        /\ task[r].log[i].result.kind = "exit"
        /\ task[r].log[i].result.rc = 0
        /\ Strip(task[r].log[i].result.stdout) # <<>>

\* C15: check_git_config returns is_configured = true iff git --version
\* succeeded and the values of user.name and user.email are both non-empty, a
\* value whose command exits with a non-zero status counting as absent; once
\* git config user.name has ended, with a value or without, git config
\* user.email is read as well, and an absent value puts no error in the result.
C15_IsConfigured ==
    \A r \in Reqs :
        ConfigReturned(r) =>
            LET git_config == task[r].git_config
                version == VersionSucceeded(r)
                name == ValuePresent(r, "user.name")
                email == ValuePresent(r, "user.email")
                reads == Issued(r, {"user.name", "user.email"})
            IN  /\ git_config.is_configured <=> (version /\ name /\ email)
                /\ \A i \in reads :
                      (task[r].log[i].op = "user.name" /\ task[r].log[i].result.kind = "exit")
                          => \E j \in reads : task[r].log[j].op = "user.email"
                /\ (version /\ \A i \in reads : task[r].log[i].result.kind # "raise")
                      => /\ "error" \notin DOMAIN git_config
                         /\ git_config.git_installed
                         /\ Truthy(git_config.username) <=> name
                         /\ Truthy(git_config.email) <=> email

\* user.name is not set (git config exits with 1), user.email is
C15_Witness ==
    \E r \in Reqs :
        /\ ConfigReturned(r)
        /\ \E i \in Issued(r, {"user.name"}) : task[r].log[i].result.rc = 1
        /\ ValuePresent(r, "user.email")
        /\ ~task[r].git_config.is_configured
        /\ task[r].git_config.git_installed
        /\ task[r].git_config.username = None

\* the entries of specific_files that stage_changes goes through
ListedFiles(r) ==
    IF Truthy(task[r].specific_files) THEN task[r].specific_files.v ELSE <<>>

\* the commands of request r that ended without success
Unsuccessful(r, op) ==
    {i \in Issued(r, {op}) :
        \/ task[r].log[i].result.kind = "raise"
        \/ task[r].log[i].result.kind = "exit" /\ task[r].log[i].result.rc # 0}

\* C16: within one request git clone, git pull, git add ., git commit and
\* git push are each issued at most once; git add <file> is issued at most
\* once per entry of specific_files, entry by entry; and a push that failed
\* is the last command of the request.
C16_NoRetries ==
    \A r \in Reqs :
        LET log == task[r].log
            adds == Adds(r)
            files == ListedFiles(r)
        IN  /\ \A i \in 1..Len(log) :
                  log[i].op \in {"clone", "pull", "add_all", "commit", "push"}
                      => \A j \in (i + 1)..Len(log) : log[j].op # log[i].op
            /\ Len(adds) <= Len(files)
            /\ \A i \in 1..Len(adds) : adds[i].arg = files[i]
            /\ \A i \in Unsuccessful(r, "push") :
                  /\ i = Len(log)
                  /\ Responded(r)
                  /\ task[r].resp.status = 400

\* git push exited with a non-zero status and the request was answered
C16_Witness ==
    \E r \in Reqs :
        /\ \E i \in Unsuccessful(r, "push") : task[r].log[i].result.rc = 1
        /\ Responded(r)
        /\ task[r].push_result.action = "pushed"
        /\ ~task[r].push_result.success

\* C17 as claimed: every response, whatever its status, has a body with the
\* three top-level fields success, message and details.
C17_Claimed ==
    \A r \in Reqs :
        Responded(r) =>
            /\ task[r].resp.status \in {200, 400, 500}
            /\ {"success", "message", "details"} \subseteq DOMAIN task[r].resp.body

\* the positions of the commands stage_changes, commit_changes and
\* push_changes issued for request r
RepoCommands(r) == {i \in 1..Len(task[r].log) : StepRank(task[r].log[i].at) \in {3, 4, 5}}

\* C18 as claimed: every command of stage_changes, commit_changes and
\* push_changes of a request handled on its own runs in the request's
\* repository path, resolved against the working directory the request found.
C18_Claimed ==
    \A r \in Reqs :
        \A i \in RepoCommands(r) : task[r].log[i].cwd = RepoDir(r)

\* the absolute path clone_repository derived for request r
ClonePathOf(r) == Resolve(task[r].start.cwd, CloneRepoPath(Ctx(r)))

\* request 1 was answered after a successful clone or pull, and request 2,
\* with the same repo_url and no clone_directory either, has reached its
\* clone or pull
SecondAfterFirst ==
    /\ sched = "serial"
    /\ task[1].pc = "done"
    /\ Succeeded(task[1].clone_result)
    /\ task[2].repo_url = task[1].repo_url
    /\ Issued(2, {"clone", "pull"}) # {}

\* C19 as claimed: the two requests resolve to the same repository path, and
\* the second issues git pull, not a second git clone.
C19_Claimed ==
    SecondAfterFirst =>
        /\ ClonePathOf(2) = ClonePathOf(1)
        /\ Issued(2, {"clone"}) = {}
        /\ Issued(2, {"pull"}) # {}

\* a request that has responded stays as it is: it responds once
RespondsOnce == \A r \in Reqs : Responded(r) => task'[r] = task[r]

\* C20: when every awaited command ends, by returning or by raising, a
\* request that has begun is answered, whatever its specific_files list; and
\* it is answered once: after its response nothing of the request changes.
C20_Termination ==
    /\ \A r \in Reqs : (task[r].pc # "idle") ~> Responded(r)
    /\ [][RespondsOnce]_vars

\* a request with two listed files, both added, that went on to its response
C20_Witness ==
    \E r \in Reqs :
        /\ Responded(r)
        /\ Len(ListedFiles(r)) = 2
        /\ Len(Adds(r)) = 2
        /\ 5 \in Ranks(r)

====
